---- MODULE Spec2Model ----
(***************************************************************************)
(* Order management service: the in-process event bus (concurrent,        *)
(* isolated fan-out with an event history), its two handlers (cache       *)
(* mirror, audit log) and the order service's read and write paths.       *)
(*                                                                         *)
(* Scheduling is asyncio's: one logical thread, code between two awaits   *)
(* is atomic.  Every action below is one such atomic stretch: the effect  *)
(* of the awaited I/O call followed by the synchronous code up to the     *)
(* next await.                                                             *)
(***************************************************************************)
EXTENDS Integers, Sequences, FiniteSets, TLC

\* ------------------------------------------------------------------ bounds
\* calls (coroutines) started in one behaviour
MaxCalls == 2
\* calls that have started and not yet returned
MaxInFlight == 2
\* order headers ever inserted
MaxOrders == 2
\* handler registrations in the bus specification
MaxHandlers == 3
\* distinct customer ids
NumCustomers == 2

\* ------------------------------------------------------- program constants
CACHE_TTL == 3600

Calls == 1..MaxCalls
Customers == 1..NumCustomers
OrderStatus == {"PENDING", "SHIPPED", "CANCELLED"}
OrderEventTypes == {"OrderCreated", "OrderUpdated", "OrderDeleted"}

\* ------------------------------------------------------------ typed values
\* Python values whose type matters to JSON serialisation.  Amounts are in
\* cents, instants are ticks of a logical clock.
Dec(c) == <<"Decimal", c>>
Flt(c) == <<"float", c>>
Dt(t) == <<"datetime", t>>
Iso(t) == <<"str", t>>

\* datetime.utcnow() when an order is created: the clock's first tick.
T0 == 0

\* CacheHandler._make_json_safe on a scalar: datetimes become ISO strings,
\* Decimals become floats, anything else is kept.
MakeSafeScalar(v) ==
  IF v[1] = "datetime" THEN Iso(v[2])
  ELSE IF v[1] = "Decimal" THEN Flt(v[2])
  ELSE v

\* order_service.get_order_by_id's own normalisation of a Decimal column:
\* float(x) if x else 0.0
FloatOrZero(v) == IF v[2] # 0 THEN Flt(v[2]) ELSE Flt(0)

\* ... and of a datetime column: x.isoformat() if x else None (the columns
\* are never null in the store, so the else branch is not taken).
IsoOf(v) == Iso(v[2])

JsonSafeScalar(v) == v[1] \in {"float", "str"}


\* ------------------------------------------------------------------ events
\* Event.__init__: event_id is a fresh uuid4 (here: the id of the call that
\* constructs the event, every call constructs at most one).
Event(event_id, event_type, data) ==
  [event_id |-> event_id, event_type |-> event_type, data |-> data]

\* test_event_bus.MockEvent
MockEvent(event_id) == Event(event_id, "MockEvent", [id |-> event_id])

RequiredFields == {"id", "customerId", "orderDate", "status"}

\* OrderCreatedEvent.__init__ raises ValueError on a missing required field.
OrderCreatedValid(order_data) == RequiredFields \subseteq DOMAIN order_data

OrderCreatedEvent(event_id, order_data) ==
  Event(event_id, "OrderCreated", order_data)

\* Faulty variant of _calculate_changes: the values are not compared.
CalculateChangesAllKeys(old_data, new_data) ==
  [key \in {k \in DOMAIN new_data : k \in DOMAIN old_data}
     |-> [from |-> old_data[key], to |-> new_data[key]]]

\* OrderUpdatedEvent._calculate_changes
CalculateChanges(old_data, new_data) ==
  [key \in {k \in DOMAIN new_data :
              k \in DOMAIN old_data /\ old_data[k] # new_data[k]}
     |-> [from |-> old_data[key], to |-> new_data[key]]]

OrderUpdatedEvent(event_id, order_id, old_data, new_data) ==
  Event(event_id, "OrderUpdated",
        [order_id |-> order_id, old_data |-> old_data, new_data |-> new_data,
         changes |-> CalculateChanges(old_data, new_data)])

OrderDeletedEvent(event_id, order_id, order_data) ==
  Event(event_id, "OrderDeleted",
        [order_id |-> order_id, order_data |-> order_data])

\* ---------------------------------------------------------------- handlers
AppHandlers == <<"CacheHandler", "HistoryHandler">>
TestHandlers == {"MockEventHandler", "FailingHandler"}
HandlerNames == {"CacheHandler", "HistoryHandler"} \cup TestHandlers

\* can_handle of each handler class
CanHandle(h, event) ==
  IF h \in {"CacheHandler", "HistoryHandler"}
  THEN event.event_type \in OrderEventTypes
  ELSE TRUE

\* ------------------------------------------------------------------- state
VARIABLES
  handlers,        \* EventBus.handlers
  event_history,   \* EventBus.event_history
  handled_events,  \* handled_events of the test handlers, by handler
  orderheader,     \* record store: order headers (set of rows)
  orderline,       \* record store: order lines, in insertion order
  orderhistory,    \* record store: audit records, in insertion order
  nextId,          \* next autoincrement ids of headers and lines
  cache,           \* cache store: order id -> <<>> or <<entry>>
  calls,           \* one frame per call (coroutine)
  tasks,           \* per publishing call: the coroutines handed to gather
  query,           \* the get_event_history call just made: argument, result
  justReturned     \* the call whose return was the last step, else 0

vars == <<handlers, event_history, handled_events, orderheader, orderline,
          orderhistory, nextId, cache, calls, tasks, query, justReturned>>

busVars == <<handlers, event_history>>
dbVars == <<orderheader, orderline, orderhistory, nextId>>

OrderIds == 1..MaxOrders

IdleFrame ==
  [op |-> "idle", pc |-> "idle", order_id |-> 0, customer_id |-> 0,
   status |-> "", lines |-> <<>>, req |-> <<>>, hdr |-> <<>>, made |-> <<>>,
   old_data |-> <<>>, snap |-> <<>>, event |-> <<>>, registered |-> <<>>,
   outcome |-> "", err |-> "", result |-> <<>>,
   queries |-> 0, cache_writes |-> 0, cache_key |-> 0,
   cached_order |-> <<>>, follows |-> 0]

NoQuery == [asked |-> FALSE, arg |-> <<>>, history |-> <<>>, result |-> <<>>]

JustReturned(c) == IF calls[c].pc = "done" THEN c ELSE 0

\* Calls are started in the order of their ids, MaxInFlight at a time.
InFlight == {c \in Calls : calls[c].pc \notin {"idle", "done"}}

Fresh(c) ==
  /\ calls[c].op = "idle"
  /\ \A d \in Calls : d < c => calls[d].op # "idle"
  /\ Cardinality(InFlight) < MaxInFlight


\* ------------------------------------------------------------ record store
\* Faulty variant of the lookup by owner: the customer is not in the filter.
FindIgnoringOwner(order_id, customer_id) ==
  LET m == {h \in orderheader : h.id = order_id}
  IN IF m = {} THEN <<>> ELSE <<CHOOSE h \in m : TRUE>>

\* orderheader.find_first(where = {id, customerId}): <<>> or <<row>>
FindByOwner(order_id, customer_id) ==
  LET m == {h \in orderheader : h.id = order_id /\ h.customerId = customer_id}
  IN IF m = {} THEN <<>> ELSE <<CHOOSE h \in m : TRUE>>

\* orderheader.find_first(where = {id}): <<>> or <<row>>
FindById(order_id) ==
  LET m == {h \in orderheader : h.id = order_id}
  IN IF m = {} THEN <<>> ELSE <<CHOOSE h \in m : TRUE>>

\* include = {lines: True}: the lines of one order, in insertion order
LinesOf(order_id) == SelectSeq(orderline, LAMBDA l : l.orderId = order_id)

\* Faulty variant of the update: the where clause is left out.
UpdateStatusOfAll(order_id, status, updatedAt) ==
  {[h EXCEPT !.status = status, !.updatedAt = updatedAt] : h \in orderheader}

\* orderheader.update(where = {id}, data = {status}); no row, no change
UpdatedAtAfterUpdate(h) == {h.updatedAt, h.updatedAt + 1}

UpdateStatus(order_id, status, updatedAt) ==
  {IF h.id = order_id
   THEN [h EXCEPT !.status = status, !.updatedAt = updatedAt]
   ELSE h : h \in orderheader}

\* orderheader.delete(where = {id}); the lines go with it (cascade)
DeleteHeader(order_id) == {h \in orderheader : h.id # order_id}
DeleteLines(order_id) == SelectSeq(orderline, LAMBDA l : l.orderId # order_id)

\* ---------------------------------------------------------------- snapshots
\* The dictionaries the service builds from rows (create, update, delete):
\* column values as the store returns them (Decimal, datetime).
RawLine(l) ==
  [id |-> l.id, productId |-> l.productId, quantity |-> l.quantity,
   unitPrice |-> Dec(l.unitPrice), createdAt |-> Dt(l.createdAt)]

RawHeader(h) ==
  [id |-> h.id, customerId |-> h.customerId, orderDate |-> Dt(h.orderDate),
   status |-> h.status, totalAmount |-> Dec(h.totalAmount),
   createdAt |-> Dt(h.createdAt), updatedAt |-> Dt(h.updatedAt)]

WithLines(d, ls) ==
  [k \in DOMAIN d \cup {"lines"} |-> IF k = "lines" THEN ls ELSE d[k]]

\* Faulty variant of the snapshot: the lines are not loaded.
RawOrderWithoutLines(h, ls) ==
  [k \in DOMAIN RawHeader(h) \cup {"lines"} |->
     IF k = "lines" THEN <<>> ELSE RawHeader(h)[k]]

RawOrder(h, ls) ==
  WithLines(RawHeader(h), [i \in 1..Len(ls) |-> RawLine(ls[i])])

\* get_order_by_id's response_data: already JSON-safe
SafeLine(l) ==
  [id |-> l.id, productId |-> l.productId, quantity |-> l.quantity,
   unitPrice |-> FloatOrZero(Dec(l.unitPrice)),
   createdAt |-> IsoOf(Dt(l.createdAt))]

SafeOrder(h, ls) ==
  WithLines([id |-> h.id, customerId |-> h.customerId,
             orderDate |-> IsoOf(Dt(h.orderDate)), status |-> h.status,
             totalAmount |-> FloatOrZero(Dec(h.totalAmount)),
             createdAt |-> IsoOf(Dt(h.createdAt)),
             updatedAt |-> IsoOf(Dt(h.updatedAt))],
            [i \in 1..Len(ls) |-> SafeLine(ls[i])])

\* CacheHandler._make_json_safe on an order dictionary
MakeJsonSafeLine(l) ==
  [l EXCEPT !.unitPrice = MakeSafeScalar(@), !.createdAt = MakeSafeScalar(@)]

MakeJsonSafe(d) ==
  [k \in DOMAIN d |->
     IF k \in {"orderDate", "totalAmount", "createdAt", "updatedAt"}
     THEN MakeSafeScalar(d[k])
     ELSE IF k = "lines"
     THEN [i \in 1..Len(d[k]) |-> MakeJsonSafeLine(d[k][i])]
     ELSE d[k]]

\* json.dumps / json.loads: the text of a value, and the value of a text
JsonDumps(v) == <<"json", v>>
JsonLoads(s) == s[2]

CacheEntry(value, expire) == [value |-> value, ex |-> expire]

\* ------------------------------------------------------------------- bus
\* Faulty variant of the handler selection: can_handle is not consulted.
AllHandlers(hs, event) == hs

\* publish, lines 35-38: the handlers that can handle the event, in
\* registration order
RelevantHandlers(hs, event) == SelectSeq(hs, LAMBDA h : CanHandle(h, event))

\* publish, lines 45-48: one coroutine per relevant handler
NewTasks(relevant) ==
  [i \in 1..Len(relevant) |-> [handler |-> relevant[i], st |-> "pending",
                               io |-> ""]]

\* Faulty variants of gather: done at the first exception; done when any coroutine
\* is; raising the first exception instead of returning it.
DoneAtFirstException(c) ==
  \/ \A i \in 1..Len(tasks[c]) : tasks[c][i].st \in {"ok", "raised"}
  \/ \E i \in 1..Len(tasks[c]) : tasks[c][i].st = "raised"

DoneAtFirstResult(c) ==
  \E i \in 1..Len(tasks[c]) : tasks[c][i].st \in {"ok", "raised"}

RaisesFirstException(ts) == \E i \in 1..Len(ts) : ts[i].st = "raised"

\* Faulty variant of gather: a timeout lets it end with coroutines unfinished.
DoneOrTimedOut(c) == TRUE

\* asyncio.gather(*tasks, return_exceptions=True), line 51: it is done when
\* every coroutine has returned or raised, and it hands the exceptions back
\* as results instead of raising one.
Finished(t) == t.st \in {"ok", "raised"}
AllFinished(c) == \A i \in 1..Len(tasks[c]) : Finished(tasks[c][i])
GatherRaises(ts) == FALSE

\* Faulty variant of publish: the newest event is put first.
PublishStartNewestFirst(c, event) ==
  /\ event_history' = <<event>> \o event_history
  /\ tasks' = [tasks EXCEPT ![c] =
                 [i \in 1..Len(SelectSeq(handlers, LAMBDA h : CanHandle(h, event)))
                    |-> [handler |-> SelectSeq(handlers,
                                               LAMBDA h : CanHandle(h, event))[i],
                         st |-> "pending", io |-> ""]]]

\* Faulty variant of publish: the event is recorded twice.
PublishStartTwice(c, event) ==
  /\ event_history' = Append(Append(event_history, event), event)
  /\ tasks' = [tasks EXCEPT ![c] =
                 [i \in 1..Len(SelectSeq(handlers, LAMBDA h : CanHandle(h, event)))
                    |-> [handler |-> SelectSeq(handlers,
                                               LAMBDA h : CanHandle(h, event))[i],
                         st |-> "pending", io |-> ""]]]

\* Faulty variant of publish: the event is recorded only when a handler takes it.
PublishStartUnrecorded(c, event) ==
  /\ event_history' = IF SelectSeq(handlers, LAMBDA h : CanHandle(h, event)) = <<>>
                      THEN event_history
                      ELSE Append(event_history, event)
  /\ tasks' = [tasks EXCEPT ![c] =
                 [i \in 1..Len(SelectSeq(handlers, LAMBDA h : CanHandle(h, event)))
                    |-> [handler |-> SelectSeq(handlers,
                                               LAMBDA h : CanHandle(h, event))[i],
                         st |-> "pending", io |-> ""]]]

\* publish, lines 32-51, up to the await of gather: the event is appended to
\* the history and the coroutines are created.
PublishStart(c, event) ==
  /\ event_history' = Append(event_history, event)
  /\ tasks' = [tasks EXCEPT ![c] = NewTasks(RelevantHandlers(handlers, event))]

\* get_event_history, lines 76-78.  The argument is <<>> (None) or <<type>>.
Truthy(arg) == arg # <<>> /\ arg[1] # ""

GetEventHistory(history, arg) ==
  IF Truthy(arg)
  THEN SelectSeq(history, LAMBDA e : e.event_type = arg[1])
  ELSE history


\* ------------------------------------------------------------ call frames
\* A frame once its call is over: the locals are gone, what stays is what
\* the caller sees (result or exception), the row the call looked up or
\* inserted, the event it published and the counts of the calls it made.
Over(f) ==
  [f EXCEPT !.pc = "done", !.req = <<>>, !.made = <<>>,
            !.old_data = <<>>, !.snap = <<>>]

Return(f, value) == [Over(f) EXCEPT !.outcome = "return", !.result = value]

Raise(f, err) == [Over(f) EXCEPT !.outcome = "raise", !.err = err]

\* What a caller of publish does once publish has returned.
Resume(f) ==
  IF f.op \in {"create_order", "update_order"} THEN Return(f, <<f.snap>>)
  ELSE IF f.op = "delete_order" THEN [f EXCEPT !.pc = "del_delete"]
  ELSE Return(f, <<>>)

\* publish, lines 40-51: return at once when no handler is relevant, await
\* gather otherwise.
AfterPublish(f, event) ==
  LET g == [f EXCEPT !.event = <<event>>, !.registered = handlers]
  IN IF RelevantHandlers(handlers, event) = <<>>
     THEN Resume(g)
     ELSE [g EXCEPT !.pc = "gather"]

\* The event a call has handed to publish.
EventOf(c) == calls[c].event[1]

\* ------------------------------------------------------------ bus actions
\* Faulty variant of register_handler: a handler already in the list is not
\* added again.
RegisterOnce(hs, h) ==
  IF \E i \in 1..Len(hs) : hs[i] = h THEN hs ELSE Append(hs, h)

\* EventBus.register_handler
RegisterHandler(hs, h) == Append(hs, h)

\* EventBus.register_handlers: register_handler on each, in order
RECURSIVE RegisterHandlers(_, _)
RegisterHandlers(hs, new) ==
  IF new = <<>> THEN hs
  ELSE RegisterHandlers(RegisterHandler(hs, Head(new)), Tail(new))

register_handler(h) ==
  /\ Len(handlers) < MaxHandlers
  /\ handlers' = RegisterHandler(handlers, h)
  /\ query' = NoQuery
  /\ justReturned' = 0
  /\ UNCHANGED <<event_history, handled_events, dbVars, cache, calls, tasks>>

register_handlers(hs) ==
  /\ Len(handlers) + Len(hs) <= MaxHandlers
  /\ handlers' = RegisterHandlers(handlers, hs)
  /\ query' = NoQuery
  /\ justReturned' = 0
  /\ UNCHANGED <<event_history, handled_events, dbVars, cache, calls, tasks>>

\* A snapshot carried by an OrderDeleted event published on the bus directly.
SampleOrder ==
  RawOrder([id |-> 1, customerId |-> 1, orderDate |-> T0, status |-> "PENDING",
            totalAmount |-> 0, createdAt |-> T0, updatedAt |-> T0], <<>>)

BusEvents(c) == {MockEvent(c), OrderDeletedEvent(c, 1, SampleOrder)}

\* EventBus.publish called directly
publish(c, event) ==
  /\ Fresh(c)
  /\ PublishStart(c, event)
  /\ calls' = [calls EXCEPT
                 ![c] = AfterPublish([IdleFrame EXCEPT !.op = "publish"], event)]
  /\ query' = NoQuery
  /\ justReturned' = JustReturned(c)'
  /\ UNCHANGED <<handlers, handled_events, dbVars, cache>>

\* publish, line 51 onwards: gather has every result, publish returns
PublishReturn(c) ==
  /\ calls[c].pc = "gather"
  /\ AllFinished(c)
  /\ calls' = [calls EXCEPT ![c] = IF GatherRaises(tasks[c])
                                   THEN Raise(@, "handler")
                                   ELSE Resume(@)]
  /\ query' = NoQuery
  /\ justReturned' = JustReturned(c)'
  /\ UNCHANGED <<busVars, handled_events, dbVars, cache, tasks>>

\* EventBus.get_event_history
get_event_history(arg) ==
  /\ query' = [asked |-> TRUE, arg |-> arg, history |-> event_history,
               result |-> GetEventHistory(event_history, arg)]
  /\ justReturned' = 0
  /\ UNCHANGED <<busVars, handled_events, dbVars, cache, calls, tasks>>

\* ---------------------------------------------------------- handler tasks
Pending(c, i, h) ==
  /\ i \in 1..Len(tasks[c])
  /\ tasks[c][i].handler = h
  /\ tasks[c][i].st = "pending"

\* Faulty variant of the dispatch: one handler after another, each awaited
\* before the next is started.
FinishedBefore(c, i) ==
  \A j \in 1..(i - 1) : tasks[c][j].st \in {"ok", "raised"}

\* The loop starts the coroutines of one gather in the order they were given.
StartedBefore(c, i) ==
  \A j \in 1..(i - 1) :
    tasks[c][j].handler \in TestHandlers => tasks[c][j].st # "pending"

SetTask(c, i, st, io) ==
  tasks' = [tasks EXCEPT ![c][i] = [@ EXCEPT !.st = st, !.io = io]]

\* test_event_bus.MockEventHandler.handle up to its sleep
MockEventHandler_handle(c, i) ==
  /\ Pending(c, i, "MockEventHandler")
  /\ StartedBefore(c, i)
  /\ handled_events' = [handled_events EXCEPT
                          !["MockEventHandler"] = Append(@, EventOf(c).event_id)]
  /\ SetTask(c, i, "running", "")
  /\ query' = NoQuery
  /\ justReturned' = 0
  /\ UNCHANGED <<busVars, dbVars, cache, calls>>

\* ... and after it
MockEventHandler_done(c, i) ==
  /\ i \in 1..Len(tasks[c])
  /\ tasks[c][i].handler = "MockEventHandler"
  /\ tasks[c][i].st = "running"
  /\ SetTask(c, i, "ok", "")
  /\ query' = NoQuery
  /\ justReturned' = 0
  /\ UNCHANGED <<busVars, handled_events, dbVars, cache, calls>>

\* test_event_bus.MockAsyncEventHandler.handle with should_fail
FailingHandler_handle(c, i) ==
  /\ Pending(c, i, "FailingHandler")
  /\ StartedBefore(c, i)
  /\ SetTask(c, i, "raised", "")
  /\ query' = NoQuery
  /\ justReturned' = 0
  /\ UNCHANGED <<busVars, handled_events, dbVars, cache, calls>>

\* CacheHandler: the key and the effect of a successful cache call
CacheKey(event) ==
  IF event.event_type = "OrderCreated" THEN event.data.id
  ELSE event.data.order_id

\* CacheHandler.handle, lines 24-29: other event types are left alone
CacheHandles(event) == event.event_type \in OrderEventTypes

\* Faulty variant of the cache handler: an update caches the old snapshot.
CacheOldSnapshot(event) ==
  IF event.event_type = "OrderCreated"
  THEN <<CacheEntry(JsonDumps(MakeJsonSafe(event.data)), CACHE_TTL)>>
  ELSE IF event.event_type = "OrderUpdated"
  THEN <<CacheEntry(JsonDumps(MakeJsonSafe(event.data.old_data)), CACHE_TTL)>>
  ELSE <<>>

CacheEffect(event) ==
  IF event.event_type = "OrderCreated"
  THEN <<CacheEntry(JsonDumps(MakeJsonSafe(event.data)), CACHE_TTL)>>
  ELSE IF event.event_type = "OrderUpdated"
  THEN <<CacheEntry(JsonDumps(MakeJsonSafe(event.data.new_data)), CACHE_TTL)>>
  ELSE <<>>

\* Faulty variant of CacheHandler.handle: a failing cache call is re-raised.
CacheHandler_reraises(c, i) ==
  /\ Pending(c, i, "CacheHandler")
  /\ \/ /\ CacheHandles(EventOf(c))
        /\ cache' = [cache EXCEPT ![CacheKey(EventOf(c))] = CacheEffect(EventOf(c))]
        /\ SetTask(c, i, "ok", "ok")
     \/ /\ CacheHandles(EventOf(c))
        /\ cache' = cache
        /\ SetTask(c, i, "raised", "failed")
     \/ /\ ~CacheHandles(EventOf(c))
        /\ cache' = cache
        /\ SetTask(c, i, "ok", "")
  /\ query' = NoQuery
  /\ justReturned' = 0
  /\ UNCHANGED <<busVars, handled_events, dbVars, calls>>

\* CacheHandler.handle: one cache call; its failure is logged and swallowed
CacheHandler_handle(c, i) ==
  /\ Pending(c, i, "CacheHandler")
  /\ \/ /\ CacheHandles(EventOf(c))
        /\ cache' = [cache EXCEPT ![CacheKey(EventOf(c))] = CacheEffect(EventOf(c))]
        /\ SetTask(c, i, "ok", "ok")
     \/ /\ CacheHandles(EventOf(c))
        /\ cache' = cache
        /\ SetTask(c, i, "ok", "failed")
     \/ /\ ~CacheHandles(EventOf(c))
        /\ cache' = cache
        /\ SetTask(c, i, "ok", "")
  /\ query' = NoQuery
  /\ justReturned' = 0
  /\ UNCHANGED <<busVars, handled_events, dbVars, calls>>


\* json.dumps raises TypeError on a Decimal or a datetime: the changes of an
\* update serialise only if the changed values are plain.
TypedKeys == {"orderDate", "totalAmount", "createdAt", "updatedAt"}

ChangesSerializable(changes) ==
  \A k \in DOMAIN changes :
    k \in TypedKeys =>
      JsonSafeScalar(changes[k].from) /\ JsonSafeScalar(changes[k].to)

\* HistoryHandler._handle_order_*: the audit record, and whether building it
\* raises before the store is called
HistoryHandles(event) == event.event_type \in OrderEventTypes

HistoryBuildRaises(event) ==
  /\ event.event_type = "OrderUpdated"
  /\ DOMAIN event.data.changes # {}
  /\ ~ChangesSerializable(event.data.changes)

HistoryRecord(event) ==
  IF event.event_type = "OrderCreated"
  THEN [orderId |-> event.data.id, action |-> "CREATED", changes |-> <<>>,
        performedBy |-> event.data.customerId]
  ELSE IF event.event_type = "OrderUpdated"
  THEN [orderId |-> event.data.order_id, action |-> "UPDATED",
        changes |-> IF DOMAIN event.data.changes # {}
                    THEN <<JsonDumps(event.data.changes)>> ELSE <<>>,
        performedBy |-> event.data.new_data.customerId]
  ELSE [orderId |-> event.data.order_id, action |-> "DELETED",
        changes |-> <<JsonDumps(
                       [deleted_at |-> "now",
                        order_info |->
                          [id |-> event.data.order_data.id,
                           customerId |-> event.data.order_data.customerId,
                           status |-> event.data.order_data.status]])>>,
        performedBy |-> event.data.order_data.customerId]

\* Faulty variant of HistoryHandler.handle: a failed audit insert is logged
\* and swallowed, as the cache handler does.
HistoryHandler_swallows(c, i) ==
  /\ Pending(c, i, "HistoryHandler")
  /\ \/ /\ HistoryHandles(EventOf(c)) /\ ~HistoryBuildRaises(EventOf(c))
        /\ orderhistory' = Append(orderhistory, HistoryRecord(EventOf(c)))
        /\ SetTask(c, i, "ok", "ok")
     \/ /\ HistoryHandles(EventOf(c)) /\ ~HistoryBuildRaises(EventOf(c))
        /\ orderhistory' = orderhistory
        /\ SetTask(c, i, "ok", "failed")
     \/ /\ HistoryBuildRaises(EventOf(c))
        /\ orderhistory' = orderhistory
        /\ SetTask(c, i, "raised", "")
     \/ /\ ~HistoryHandles(EventOf(c))
        /\ orderhistory' = orderhistory
        /\ SetTask(c, i, "ok", "")
  /\ query' = NoQuery
  /\ justReturned' = 0
  /\ UNCHANGED <<busVars, handled_events, orderheader, orderline, nextId,
                 cache, calls>>

\* HistoryHandler.handle: one audit insert; any failure is re-raised
HistoryHandler_handle(c, i) ==
  /\ Pending(c, i, "HistoryHandler")
  /\ \/ /\ HistoryHandles(EventOf(c)) /\ ~HistoryBuildRaises(EventOf(c))
        /\ orderhistory' = Append(orderhistory, HistoryRecord(EventOf(c)))
        /\ SetTask(c, i, "ok", "ok")
     \/ /\ HistoryHandles(EventOf(c)) /\ ~HistoryBuildRaises(EventOf(c))
        /\ orderhistory' = orderhistory
        /\ SetTask(c, i, "raised", "failed")
     \/ /\ HistoryBuildRaises(EventOf(c))
        /\ orderhistory' = orderhistory
        /\ SetTask(c, i, "raised", "")
     \/ /\ ~HistoryHandles(EventOf(c))
        /\ orderhistory' = orderhistory
        /\ SetTask(c, i, "ok", "")
  /\ query' = NoQuery
  /\ justReturned' = 0
  /\ UNCHANGED <<busVars, handled_events, orderheader, orderline, nextId,
                 cache, calls>>

\* ----------------------------------------------------------- order service
\* Request lines (CreateOrderLineRequest), prices in cents.
Line1 == [product_id |-> 1001, quantity |-> 2, unit_price |-> 2550]
Line2 == [product_id |-> 1002, quantity |-> 1, unit_price |-> 1500]
RequestLines == {<<>>, <<Line2>>, <<Line1, Line2>>}
CreateStatuses == {"PENDING"}

\* Faulty variant of _calculate_total_amount: the quantity is left out.
RECURSIVE TotalOfUnitPrices(_)
TotalOfUnitPrices(lines) ==
  IF lines = <<>> THEN 0
  ELSE Head(lines).unit_price + TotalOfUnitPrices(Tail(lines))

\* OrderService._calculate_total_amount
RECURSIVE CalculateTotalAmount(_)
CalculateTotalAmount(lines) ==
  IF lines = <<>> THEN 0
  ELSE Head(lines).unit_price * Head(lines).quantity
       + CalculateTotalAmount(Tail(lines))

\* create_order, lines 72-77: build the response, publish OrderCreated
CreatePublish(c, f) ==
  LET response_data == RawOrder(f.hdr[1], f.made)
      event == OrderCreatedEvent(c, response_data)
      g == [f EXCEPT !.snap = response_data]
  IN /\ OrderCreatedValid(response_data)
     /\ PublishStart(c, event)
     /\ calls' = [calls EXCEPT ![c] = AfterPublish(g, event)]

\* create_order, lines 20-36: the call and its header insert
create_order(c, customer_id, status, lines) ==
  /\ Fresh(c)
  /\ nextId.header <= MaxOrders
  /\ LET f == [IdleFrame EXCEPT !.op = "create_order",
                                !.customer_id = customer_id,
                                !.status = status, !.lines = lines,
                                !.req = lines]
         row == [id |-> nextId.header, customerId |-> customer_id,
                 orderDate |-> T0, status |-> status,
                 totalAmount |-> CalculateTotalAmount(lines),
                 createdAt |-> T0, updatedAt |-> T0]
     IN \/ /\ orderheader' = orderheader \cup {row}
           /\ nextId' = [nextId EXCEPT !.header = @ + 1]
           /\ IF lines = <<>>
              THEN CreatePublish(c, [f EXCEPT !.order_id = row.id,
                                              !.hdr = <<row>>])
              ELSE /\ calls' = [calls EXCEPT
                                  ![c] = [f EXCEPT !.pc = "cr_line",
                                                   !.order_id = row.id,
                                                   !.hdr = <<row>>]]
                   /\ UNCHANGED <<event_history, tasks>>
        \/ /\ calls' = [calls EXCEPT ![c] = Raise(f, "db")]
           /\ UNCHANGED <<orderheader, nextId, event_history, tasks>>
  /\ query' = NoQuery
  /\ justReturned' = JustReturned(c)'
  /\ UNCHANGED <<handlers, handled_events, orderline, orderhistory, cache>>

\* create_order, lines 40-49: one line insert (it needs its header: the
\* lines reference it); after the last one, publish
create_line(c) ==
  /\ calls[c].pc = "cr_line"
  /\ LET f == calls[c]
         l == Head(f.req)
         row == [id |-> nextId.line, orderId |-> f.hdr[1].id,
                 productId |-> l.product_id, quantity |-> l.quantity,
                 unitPrice |-> l.unit_price, createdAt |-> T0]
         g == [f EXCEPT !.req = Tail(@), !.made = Append(@, row)]
     IN \/ /\ FindById(row.orderId) # <<>>
           /\ orderline' = Append(orderline, row)
           /\ nextId' = [nextId EXCEPT !.line = @ + 1]
           /\ IF g.req = <<>>
              THEN CreatePublish(c, g)
              ELSE /\ calls' = [calls EXCEPT ![c] = g]
                   /\ UNCHANGED <<event_history, tasks>>
        \/ /\ calls' = [calls EXCEPT ![c] = Raise(f, "db")]
           /\ UNCHANGED <<orderline, nextId, event_history, tasks>>
  /\ query' = NoQuery
  /\ justReturned' = JustReturned(c)'
  /\ UNCHANGED <<handlers, handled_events, orderheader, orderhistory, cache>>


\* Faulty variants of the ownership check on a cache hit: never equal (an int
\* compared with its text), always equal (no check).
OwnerNeverMatches(order_data, customer_id) == FALSE
OwnerAlwaysMatches(order_data, customer_id) == TRUE

\* get_order_by_id, line 93: order_data.get("customerId") == customer_id
OwnerMatches(order_data, customer_id) == order_data.customerId = customer_id

\* Faulty variant of get_order_by_id: a failing cache read counts as a miss.
get_order_by_id_miss_on_error(c, order_id, customer_id) ==
  /\ Fresh(c)
  /\ LET f == [IdleFrame EXCEPT !.op = "get_order_by_id",
                                !.order_id = order_id,
                                !.customer_id = customer_id,
                                !.follows = justReturned]
         cached_order == cache[order_id]
         g == [f EXCEPT !.cached_order = cached_order]
     IN \/ calls' = [calls EXCEPT ![c] =
             IF cached_order # <<>>
                /\ OwnerMatches(JsonLoads(cached_order[1].value), customer_id)
             THEN Return(g, <<JsonLoads(cached_order[1].value)>>)
             ELSE [g EXCEPT !.pc = "get_find"]]
        \/ calls' = [calls EXCEPT ![c] = [f EXCEPT !.pc = "get_find"]]
  /\ query' = NoQuery
  /\ justReturned' = JustReturned(c)'
  /\ UNCHANGED <<busVars, handled_events, dbVars, cache, tasks>>

\* get_order_by_id, lines 86-95: the call and its cache read
get_order_by_id(c, order_id, customer_id) ==
  /\ Fresh(c)
  /\ LET f == [IdleFrame EXCEPT !.op = "get_order_by_id",
                                !.order_id = order_id,
                                !.customer_id = customer_id,
                                !.follows = justReturned]
         cached_order == cache[order_id]
         g == [f EXCEPT !.cached_order = cached_order]
     IN \/ calls' = [calls EXCEPT ![c] =
             IF cached_order # <<>>
                /\ OwnerMatches(JsonLoads(cached_order[1].value), customer_id)
             THEN Return(g, <<JsonLoads(cached_order[1].value)>>)
             ELSE [g EXCEPT !.pc = "get_find"]]
        \/ calls' = [calls EXCEPT ![c] = Raise(f, "cache")]
  /\ query' = NoQuery
  /\ justReturned' = JustReturned(c)'
  /\ UNCHANGED <<busVars, handled_events, dbVars, cache, tasks>>

\* get_order_by_id, lines 98-127: the record-store query
get_find(c) ==
  /\ calls[c].pc = "get_find"
  /\ LET f == [calls[c] EXCEPT !.queries = @ + 1]
         order_header == FindByOwner(f.order_id, f.customer_id)
     IN \/ calls' = [calls EXCEPT ![c] =
             IF order_header = <<>>
             THEN Return(f, <<>>)
             ELSE [f EXCEPT !.pc = "get_set", !.hdr = order_header,
                            !.snap = SafeOrder(order_header[1],
                                               LinesOf(f.order_id))]]
        \/ calls' = [calls EXCEPT ![c] = Raise(f, "db")]
  /\ query' = NoQuery
  /\ justReturned' = JustReturned(c)'
  /\ UNCHANGED <<busVars, handled_events, dbVars, cache, tasks>>

\* get_order_by_id, lines 130-133: the cache write, then the return
get_set(c) ==
  /\ calls[c].pc = "get_set"
  /\ LET f == [calls[c] EXCEPT !.cache_writes = @ + 1,
                               !.cache_key = calls[c].order_id]
     IN \/ /\ cache' = [cache EXCEPT ![f.cache_key] =
                          <<CacheEntry(JsonDumps(f.snap), CACHE_TTL)>>]
           /\ calls' = [calls EXCEPT ![c] = Return(f, <<f.snap>>)]
        \/ /\ cache' = cache
           /\ calls' = [calls EXCEPT ![c] = Raise(f, "cache")]
  /\ query' = NoQuery
  /\ justReturned' = JustReturned(c)'
  /\ UNCHANGED <<busVars, handled_events, dbVars, tasks>>

\* GET /orders/{order_id}: the order comes from the dependency
\* check_order_ownership, which reads the record store and no cache.
\* Lines 20-39: the lookup by id, 404 without a row, 403 for another
\* customer's row; a failing store call becomes 500 (lines 69-74).
check_order_ownership(c, order_id, customer_id) ==
  /\ Fresh(c)
  /\ LET f == [IdleFrame EXCEPT !.op = "get_order",
                                !.order_id = order_id,
                                !.customer_id = customer_id,
                                !.queries = 1]
         order == FindById(order_id)
     IN \/ calls' = [calls EXCEPT ![c] =
             IF order = <<>> THEN Raise(f, "404")
             ELSE IF order[1].customerId # customer_id THEN Raise(f, "403")
             ELSE [f EXCEPT !.pc = "own_load", !.hdr = order]]
        \/ calls' = [calls EXCEPT ![c] = Raise(f, "500")]
  /\ query' = NoQuery
  /\ justReturned' = JustReturned(c)'
  /\ UNCHANGED <<busVars, handled_events, dbVars, cache, tasks>>

\* check_order_ownership, lines 42-65, and get_order: the order read again
\* with its lines and returned; no row any more, or a failing store call,
\* becomes 500
ownership_load(c) ==
  /\ calls[c].pc = "own_load"
  /\ LET f == [calls[c] EXCEPT !.queries = @ + 1]
         order_with_lines == FindByOwner(f.order_id, f.customer_id)
     IN \/ calls' = [calls EXCEPT ![c] =
             IF order_with_lines = <<>> THEN Raise(f, "500")
             ELSE Return(f, <<RawOrder(order_with_lines[1],
                                       LinesOf(f.order_id))>>)]
        \/ calls' = [calls EXCEPT ![c] = Raise(f, "500")]
  /\ query' = NoQuery
  /\ justReturned' = JustReturned(c)'
  /\ UNCHANGED <<busVars, handled_events, dbVars, cache, tasks>>

\* update_order, lines 142-161: the call and its lookup by owner
update_order(c, order_id, status, customer_id) ==
  /\ Fresh(c)
  /\ LET f == [IdleFrame EXCEPT !.op = "update_order",
                                !.order_id = order_id, !.status = status,
                                !.customer_id = customer_id,
                                !.queries = 1]
         current_order == FindByOwner(order_id, customer_id)
     IN \/ calls' = [calls EXCEPT ![c] =
             IF current_order = <<>>
             THEN Return(f, <<>>)
             ELSE [f EXCEPT !.pc = "up_update", !.hdr = current_order,
                            !.old_data = RawHeader(current_order[1])]]
        \/ calls' = [calls EXCEPT ![c] = Raise(f, "db")]
  /\ query' = NoQuery
  /\ justReturned' = JustReturned(c)'
  /\ UNCHANGED <<busVars, handled_events, dbVars, cache, tasks>>

\* update_order, lines 164-167: the update by id
update_write(c) ==
  /\ calls[c].pc = "up_update"
  /\ LET f == calls[c]
         row == FindById(f.order_id)
     IN \/ /\ row # <<>>
           /\ \E updatedAt \in UpdatedAtAfterUpdate(row[1]) :
                orderheader' = UpdateStatus(f.order_id, f.status, updatedAt)
           /\ calls' = [calls EXCEPT ![c] = [f EXCEPT !.pc = "up_refind"]]
        \/ /\ row = <<>>
           /\ orderheader' = orderheader
           /\ calls' = [calls EXCEPT ![c] = [f EXCEPT !.pc = "up_refind"]]
        \/ /\ orderheader' = orderheader
           /\ calls' = [calls EXCEPT ![c] = Raise(f, "db")]
  /\ query' = NoQuery
  /\ justReturned' = JustReturned(c)'
  /\ UNCHANGED <<busVars, handled_events, orderline, orderhistory, nextId,
                 cache, tasks>>

\* update_order, lines 170-201: read back with lines, publish OrderUpdated
update_refind(c) ==
  /\ calls[c].pc = "up_refind"
  /\ LET f == [calls[c] EXCEPT !.queries = @ + 1]
         updated == FindById(f.order_id)
         response_data == RawOrder(updated[1], LinesOf(f.order_id))
         event == OrderUpdatedEvent(c, f.order_id, f.old_data, response_data)
     IN \/ /\ updated # <<>>
           /\ PublishStart(c, event)
           /\ calls' = [calls EXCEPT ![c] =
                          AfterPublish([f EXCEPT !.snap = response_data], event)]
        \/ /\ updated = <<>>
           /\ calls' = [calls EXCEPT ![c] = Raise(f, "AttributeError")]
           /\ UNCHANGED <<event_history, tasks>>
        \/ /\ calls' = [calls EXCEPT ![c] = Raise(f, "db")]
           /\ UNCHANGED <<event_history, tasks>>
  /\ query' = NoQuery
  /\ justReturned' = JustReturned(c)'
  /\ UNCHANGED <<handlers, handled_events, dbVars, cache>>

\* delete_order, lines 210-244: the call, its lookup by owner and the
\* publication of OrderDeleted
delete_order(c, order_id, customer_id) ==
  /\ Fresh(c)
  /\ LET f == [IdleFrame EXCEPT !.op = "delete_order",
                                !.order_id = order_id,
                                !.customer_id = customer_id,
                                !.queries = 1]
         order_data == FindByOwner(order_id, customer_id)
         order_data_dict == RawOrder(order_data[1], LinesOf(order_id))
         event == OrderDeletedEvent(c, order_id, order_data_dict)
     IN \/ /\ order_data # <<>>
           /\ PublishStart(c, event)
           /\ calls' = [calls EXCEPT ![c] =
                          AfterPublish([f EXCEPT !.hdr = order_data,
                                                 !.snap = order_data_dict],
                                       event)]
        \/ /\ order_data = <<>>
           /\ calls' = [calls EXCEPT ![c] = Raise(f, "ValueError")]
           /\ UNCHANGED <<event_history, tasks>>
        \/ /\ calls' = [calls EXCEPT ![c] = Raise(f, "db")]
           /\ UNCHANGED <<event_history, tasks>>
  /\ query' = NoQuery
  /\ justReturned' = JustReturned(c)'
  /\ UNCHANGED <<handlers, handled_events, dbVars, cache>>

\* delete_order, lines 247-250: the delete by id, after publish has returned
delete_write(c) ==
  /\ calls[c].pc = "del_delete"
  /\ LET f == calls[c]
     IN \/ /\ orderheader' = DeleteHeader(f.order_id)
           /\ orderline' = DeleteLines(f.order_id)
           /\ calls' = [calls EXCEPT ![c] = Return(f, <<TRUE>>)]
        \/ /\ UNCHANGED <<orderheader, orderline>>
           /\ calls' = [calls EXCEPT ![c] = Raise(f, "db")]
  /\ query' = NoQuery
  /\ justReturned' = JustReturned(c)'
  /\ UNCHANGED <<busVars, handled_events, orderhistory, nextId, cache, tasks>>

\* ---------------------------------------------------------- specifications
\* The stores outlive the process.  A process starts against stores that are
\* empty, or that hold one order created earlier by customer 1 (header, lines
\* and CREATED audit record), its cache entry gone or still there as the
\* CacheHandler wrote it.
SeedHeader ==
  [id |-> 1, customerId |-> 1, orderDate |-> T0, status |-> "PENDING",
   totalAmount |-> CalculateTotalAmount(<<Line1, Line2>>),
   createdAt |-> T0, updatedAt |-> T0]

SeedLines ==
  <<[id |-> 1, orderId |-> 1, productId |-> Line1.product_id,
     quantity |-> Line1.quantity, unitPrice |-> Line1.unit_price,
     createdAt |-> T0],
    [id |-> 2, orderId |-> 1, productId |-> Line2.product_id,
     quantity |-> Line2.quantity, unitPrice |-> Line2.unit_price,
     createdAt |-> T0]>>

SeedEvent == OrderCreatedEvent(0, RawOrder(SeedHeader, SeedLines))

EmptyCache == [k \in OrderIds |-> <<>>]

InitStores ==
  \/ /\ orderheader = {}
     /\ orderline = <<>>
     /\ orderhistory = <<>>
     /\ nextId = [header |-> 1, line |-> 1]
     /\ cache = EmptyCache
  \/ /\ orderheader = {SeedHeader}
     /\ orderline = SeedLines
     /\ orderhistory = <<HistoryRecord(SeedEvent)>>
     /\ nextId = [header |-> 2, line |-> 3]
     /\ cache \in {EmptyCache,
                   [EmptyCache EXCEPT ![1] = CacheEffect(SeedEvent)]}

InitCalls ==
  /\ calls = [c \in Calls |-> IdleFrame]
  /\ tasks = [c \in Calls |-> <<>>]
  /\ handled_events = [h \in TestHandlers |-> <<>>]
  /\ query = NoQuery
  /\ justReturned = 0

\* The application: api/orders.py builds the bus and registers the cache
\* and the history handler before any request is served.
Init ==
  /\ handlers = RegisterHandlers(<<>>, AppHandlers)
  /\ event_history = <<>>
  /\ InitStores
  /\ InitCalls

HandlerSteps ==
  \E c \in Calls : \E i \in 1..MaxHandlers :
    \/ CacheHandler_handle(c, i)
    \/ HistoryHandler_handle(c, i)

Next ==
  \/ \E c \in Calls, customer_id \in Customers :
       \/ \E status \in CreateStatuses, lines \in RequestLines :
            create_order(c, customer_id, status, lines)
       \/ \E order_id \in OrderIds : get_order_by_id(c, order_id, customer_id)
       \/ \E order_id \in OrderIds :
            check_order_ownership(c, order_id, customer_id)
       \/ \E order_id \in OrderIds, status \in OrderStatus :
            update_order(c, order_id, status, customer_id)
       \/ \E order_id \in OrderIds : delete_order(c, order_id, customer_id)
  \/ \E c \in Calls :
       \/ create_line(c)
       \/ get_find(c)
       \/ get_set(c)
       \/ ownership_load(c)
       \/ update_write(c)
       \/ update_refind(c)
       \/ delete_write(c)
       \/ PublishReturn(c)
  \/ HandlerSteps

Spec == Init /\ [][Next]_vars

\* The application started against a cache of any content: under each key
\* nothing, or a snapshot carrying either customer.
CachedSnapshotOf(k) ==
  <<CacheEntry(JsonDumps(SafeOrder([SeedHeader EXCEPT !.customerId = k],
                                   SeedLines)), CACHE_TTL)>>

AnyCache == [OrderIds -> {<<>>} \cup {CachedSnapshotOf(k) : k \in Customers}]

OwnerInit ==
  /\ handlers = RegisterHandlers(<<>>, AppHandlers)
  /\ event_history = <<>>
  /\ \/ /\ orderheader = {}
        /\ orderline = <<>>
        /\ orderhistory = <<>>
        /\ nextId = [header |-> 1, line |-> 1]
     \/ /\ orderheader = {SeedHeader}
        /\ orderline = SeedLines
        /\ orderhistory = <<HistoryRecord(SeedEvent)>>
        /\ nextId = [header |-> 2, line |-> 3]
  /\ cache \in AnyCache
  /\ InitCalls

OwnerSpec == OwnerInit /\ [][Next]_vars

\* The bus on its own: a fresh EventBus, handlers registered at any time,
\* events published directly, the history queried.
BusInit ==
  /\ handlers = <<>>
  /\ event_history = <<>>
  /\ orderheader = {SeedHeader}
  /\ orderline = SeedLines
  /\ orderhistory = <<HistoryRecord(SeedEvent)>>
  /\ nextId = [header |-> 2, line |-> 3]
  /\ cache = [EmptyCache EXCEPT ![1] = CacheEffect(SeedEvent)]
  /\ InitCalls

BusHandlers == TestHandlers \cup {"CacheHandler"}

QueryArgs == {<<>>, <<"MockEvent">>, <<"OrderDeleted">>, <<"">>}

BusNext ==
  \/ \E h \in BusHandlers : register_handler(h)
  \/ \E h1, h2 \in BusHandlers : register_handlers(<<h1, h2>>)
  \/ \E c \in Calls : \E event \in BusEvents(c) : publish(c, event)
  \/ \E c \in Calls : PublishReturn(c)
  \/ \E c \in Calls : \E i \in 1..MaxHandlers :
       \/ MockEventHandler_handle(c, i)
       \/ MockEventHandler_done(c, i)
       \/ FailingHandler_handle(c, i)
       \/ CacheHandler_handle(c, i)
  \/ \E arg \in QueryArgs : get_event_history(arg)

BusSpec == BusInit /\ [][BusNext]_vars

\* The application with the event loop's guarantee: a coroutine that can go
\* on is resumed.  publish is resumed once its gather is done; what the
\* handlers wait for (cache, record store) may never answer, so nothing
\* forces a handler to finish.
LiveSpec == Spec /\ \A c \in Calls : WF_vars(PublishReturn(c))


\* ------------------------------------------------------------------ claims
\* publish has been called by c and has returned to it.
Published(c) == calls[c].event # <<>>
PublishOver(c) == Published(c) /\ calls[c].pc # "gather"

HistoryCount(c) ==
  Cardinality({i \in 1..Len(event_history) : event_history[i].event_id = c})

\* How often handle was invoked on handler h for the event of call c, and
\* how often h was registered when c published.
Invocations(c, h) ==
  Cardinality({i \in 1..Len(tasks[c]) :
                 tasks[c][i].handler = h /\ tasks[c][i].st # "pending"})

Registrations(c, h) ==
  Cardinality({i \in 1..Len(calls[c].registered) : calls[c].registered[i] = h})

SomeRaised(c) == \E i \in 1..Len(tasks[c]) : tasks[c][i].st = "raised"

\* C1: when a selected handler raises during handle, publish still returns
\* normally to its caller, and every other selected handler has run handle
\* to its end for that event (a MockEventHandler has recorded the event and
\* completed).
C1_FailureIsolated ==
  \A c \in Calls :
    (PublishOver(c) /\ SomeRaised(c)) =>
      /\ calls[c].op = "publish" => calls[c].outcome = "return"
      /\ calls[c].err # "handler"
      /\ \A i \in 1..Len(tasks[c]) :
           /\ Finished(tasks[c][i])
           /\ tasks[c][i].handler = "MockEventHandler" =>
                /\ tasks[c][i].st = "ok"
                /\ \E k \in 1..Len(handled_events["MockEventHandler"]) :
                     handled_events["MockEventHandler"][k] = c

C1_Witness ==
  \E c \in Calls :
    /\ calls[c].op = "publish" /\ calls[c].outcome = "return"
    /\ Len(tasks[c]) = 2
    /\ \E i, j \in 1..2 :
         /\ tasks[c][i].handler = "FailingHandler" /\ tasks[c][i].st = "raised"
         /\ tasks[c][j].handler = "MockEventHandler" /\ tasks[c][j].st = "ok"

\* C2 as claimed: once publish(e) is over, handle(e) has been invoked exactly
\* once on each registered handler whose can_handle(e) is true and never on a
\* registered handler whose can_handle(e) is false.
C2_OncePerHandler ==
  \A c \in Calls : PublishOver(c) =>
    \A h \in HandlerNames : Registrations(c, h) > 0 =>
      Invocations(c, h) = IF CanHandle(h, EventOf(c)) THEN 1 ELSE 0

\* C2 as amended: once publish(e) is over, handle(e) has been invoked exactly
\* once per registration of each handler whose can_handle(e) is true (a
\* handler registered k times is invoked k times) and never on a handler
\* whose can_handle(e) is false.
C2_OncePerRegistration ==
  \A c \in Calls : PublishOver(c) =>
    \A h \in HandlerNames :
      Invocations(c, h) = IF CanHandle(h, EventOf(c))
                          THEN Registrations(c, h) ELSE 0

C2_Witness ==
  \E c \in Calls :
    /\ PublishOver(c)
    /\ \E h \in HandlerNames :
         /\ CanHandle(h, EventOf(c))
         /\ Registrations(c, h) = 2 /\ Invocations(c, h) = 2
    /\ \E h \in HandlerNames :
         /\ ~CanHandle(h, EventOf(c))
         /\ Registrations(c, h) = 1 /\ Invocations(c, h) = 0

\* No handler registered when call c published can handle its event.
NoneRelevant(c) ==
  \A i \in 1..Len(calls[c].registered) :
    ~CanHandle(calls[c].registered[i], EventOf(c))

\* C3: an event published while no registered handler can handle it (none
\* registered, or none whose can_handle is true): publish has returned
\* normally, no handler was invoked, the event is in the history once.
C3_NoHandlers ==
  \A c \in Calls :
    (Published(c) /\ calls[c].op = "publish" /\ NoneRelevant(c)) =>
      /\ calls[c].pc = "done" /\ calls[c].outcome = "return"
      /\ tasks[c] = <<>>
      /\ \A h \in HandlerNames : Invocations(c, h) = 0
      /\ HistoryCount(c) = 1

C3_Witness ==
  \E c, d \in Calls :
    /\ Published(c) /\ calls[c].op = "publish"
    /\ calls[c].registered = <<>> /\ calls[c].outcome = "return"
    /\ Published(d) /\ calls[d].op = "publish"
    /\ calls[d].registered # <<>> /\ NoneRelevant(d)
    /\ calls[d].outcome = "return" /\ HistoryCount(d) = 1

\* C4: publish is a barrier: whenever publish has returned to its caller,
\* every coroutine it handed to gather has finished (returned or raised);
\* none is pending or still running.
C4_Barrier ==
  \A c \in Calls : PublishOver(c) =>
    \A i \in 1..Len(tasks[c]) : Finished(tasks[c][i])

C4_Witness ==
  \E c \in Calls :
    /\ calls[c].op = "delete_order" /\ calls[c].pc = "del_delete"
    /\ Len(tasks[c]) = 2
    /\ \A i \in 1..2 : tasks[c][i].st = "ok" /\ tasks[c][i].io = "ok"

\* C5: get_event_history(X) returns exactly the retained events whose type
\* is X, in publication order; without a type it returns all of them.
C5_History ==
  query.asked =>
    query.result =
      IF query.arg = <<>> THEN query.history
      ELSE SelectSeq(query.history, LAMBDA e : e.event_type = query.arg[1])


\* A read that found nothing in the cache and an order in the record store.
MissRead(c) ==
  /\ calls[c].op = "get_order_by_id"
  /\ calls[c].outcome = "return"
  /\ calls[c].cached_order = <<>>
  /\ calls[c].result # <<>>

SameRead(c, d) ==
  /\ calls[d].op = "get_order_by_id"
  /\ calls[d].order_id = calls[c].order_id
  /\ calls[d].customer_id = calls[c].customer_id

\* C6: a get_order_by_id that misses the cache and finds the order in the
\* record store has made exactly one record-store query and exactly one cache
\* write, of the key of that order; a get_order_by_id for the same order and
\* customer that starts right after it returned (nothing in between, the
\* cache read working) has returned the same snapshot without any
\* record-store query.
C6_CacheAside ==
  \A c \in Calls : MissRead(c) =>
    /\ calls[c].queries = 1
    /\ calls[c].cache_writes = 1
    /\ calls[c].cache_key = calls[c].order_id
    /\ \A d \in Calls :
         (SameRead(c, d) /\ calls[d].follows = c /\ calls[d].err # "cache") =>
           /\ calls[d].pc = "done" /\ calls[d].outcome = "return"
           /\ calls[d].result = calls[c].result
           /\ calls[d].queries = 0

C6_Witness ==
  \E c, d \in Calls :
    /\ MissRead(c) /\ calls[c].queries = 1 /\ calls[c].cache_writes = 1
    /\ SameRead(c, d) /\ calls[d].follows = c
    /\ calls[d].outcome = "return" /\ calls[d].queries = 0
    /\ calls[d].result = calls[c].result

\* A read that found in the cache an entry of another customer.
CachedData(c) == JsonLoads(calls[c].cached_order[1].value)

Mismatch(c) ==
  /\ calls[c].op = "get_order_by_id"
  /\ calls[c].cached_order # <<>>
  /\ CachedData(c).customerId # calls[c].customer_id

IsSnapshotOf(d, h, ls) ==
  /\ d.id = h.id /\ d.customerId = h.customerId /\ d.status = h.status
  /\ d.orderDate = Dt(h.orderDate) /\ d.totalAmount = Dec(h.totalAmount)
  /\ d.createdAt = Dt(h.createdAt) /\ d.updatedAt = Dt(h.updatedAt)
  /\ Len(d.lines) = Len(ls)
  /\ \A i \in 1..Len(ls) :
       /\ d.lines[i].id = ls[i].id /\ d.lines[i].productId = ls[i].productId
       /\ d.lines[i].quantity = ls[i].quantity
       /\ d.lines[i].unitPrice = Dec(ls[i].unitPrice)

\* The step in which delete_order publishes: one event appended, carrying
\* the order as the record store holds it, the store untouched.
C8_PublishesSnapshot ==
  \A c \in Calls :
    (calls[c].op = "idle" /\ calls'[c].op = "delete_order"
       /\ calls'[c].event # <<>>) =>
      LET e == calls'[c].event[1]
          order_id == calls'[c].order_id
      IN /\ event_history' = Append(event_history, e)
         /\ e.event_type = "OrderDeleted" /\ e.data.order_id = order_id
         /\ FindById(order_id) # <<>>
         /\ IsSnapshotOf(e.data.order_data, FindById(order_id)[1],
                         LinesOf(order_id))
         /\ orderheader' = orderheader /\ orderline' = orderline

\* After a successful delete_order the order is gone.
C8_Gone ==
  \A c \in Calls :
    (calls[c].op = "delete_order" /\ calls[c].outcome = "return") =>
      FindById(calls[c].order_id) = <<>>

\* Every OrderDeleted event of the history was published by a delete_order.
C8_FromDelete ==
  \A i \in 1..Len(event_history) :
    event_history[i].event_type = "OrderDeleted" =>
      /\ calls[event_history[i].event_id].op = "delete_order"
      /\ calls[event_history[i].event_id].event = <<event_history[i]>>

\* C8: the step in which delete_order publishes OrderDeleted appends to the
\* history one event whose order_data is the snapshot (header fields and all
\* lines) of the order as the record store holds it at that moment, the
\* delete not yet made; every OrderDeleted event in the history is such an
\* event; and once delete_order has returned successfully the order is no
\* longer in the record store.
C8_DeleteSnapshot ==
  [][C8_PublishesSnapshot /\ C8_Gone' /\ C8_FromDelete']_vars

C8_Witness ==
  \E c \in Calls :
    /\ calls[c].op = "delete_order" /\ calls[c].outcome = "return"
    /\ Len(calls[c].event[1].data.order_data.lines) = 2
    /\ FindById(calls[c].order_id) = <<>>

\* A write that succeeded.
WriteOps == {"create_order", "update_order", "delete_order"}

Succeeded(c) ==
  /\ calls[c].op \in WriteOps
  /\ calls[c].outcome = "return"
  /\ calls[c].result # <<>>

EventTypeOf(op) ==
  IF op = "create_order" THEN "OrderCreated"
  ELSE IF op = "update_order" THEN "OrderUpdated"
  ELSE "OrderDeleted"

EventOrderId(e) ==
  IF e.event_type = "OrderCreated" THEN e.data.id ELSE e.data.order_id

\* C9: a create_order, update_order or delete_order that has returned
\* successfully has published exactly one event, of the type of the
\* operation and for the order it affected, and that publish is over: both
\* handlers were given the event and have finished.
C9_OneEventPerWrite ==
  \A c \in Calls : Succeeded(c) =>
    /\ HistoryCount(c) = 1
    /\ Published(c)
    /\ EventOf(c).event_type = EventTypeOf(calls[c].op)
    /\ EventOrderId(EventOf(c)) = calls[c].order_id
    /\ \E i \in 1..Len(event_history) : event_history[i] = EventOf(c)
    /\ Len(tasks[c]) = Len(AppHandlers)
    /\ \A i \in 1..Len(tasks[c]) : Finished(tasks[c][i])

C9_Witness ==
  \E c \in Calls :
    /\ Succeeded(c) /\ calls[c].op = "update_order"
    /\ HistoryCount(c) = 1
    /\ EventOf(c).event_type = "OrderUpdated"
    /\ \A i \in 1..Len(tasks[c]) : tasks[c][i].st = "ok"

\* A side effect of the event of call c has failed: the cache call, or the
\* audit insert, or the history handler itself.
SideEffectFailed(c) ==
  \E i \in 1..Len(tasks[c]) :
    tasks[c][i].io = "failed" \/ tasks[c][i].st = "raised"

\* C10: a create_order, update_order or delete_order whose event side
\* effects failed (cache write, audit write, or both) and that is over has
\* returned successfully, unless one of its own record-store calls failed:
\* no side-effect failure reaches the operation.
C10_SideEffectsInvisible ==
  \A c \in Calls :
    (calls[c].op \in WriteOps /\ calls[c].pc = "done" /\ SideEffectFailed(c)) =>
      \/ calls[c].outcome = "return" /\ calls[c].result # <<>>
      \/ calls[c].outcome = "raise" /\ calls[c].err = "db"

C10_Witness ==
  \E c \in Calls :
    /\ calls[c].op = "create_order" /\ calls[c].outcome = "return"
    /\ \E i, j \in 1..Len(tasks[c]) :
         /\ tasks[c][i].handler = "CacheHandler" /\ tasks[c][i].io = "failed"
         /\ tasks[c][j].handler = "HistoryHandler" /\ tasks[c][j].st = "raised"

\* The fields present in both snapshots of an OrderUpdated payload.
CommonKeys(d) == DOMAIN d.old_data \cap DOMAIN d.new_data

\* Old and new snapshot differ in the status and in nothing else.
OnlyStatusDiffers(d) ==
  /\ d.old_data.status # d.new_data.status
  /\ \A k \in CommonKeys(d) \ {"status"} : d.old_data[k] = d.new_data[k]

RECURSIVE SumOfLines(_, _)
SumOfLines(lines, n) ==
  IF n = 0 THEN 0
  ELSE SumOfLines(lines, n - 1) + lines[n].quantity * lines[n].unit_price

\* The stored or returned lines ls are the request's lines, in request order.
AreRequestLines(ls, lines, price(_)) ==
  /\ Len(ls) = Len(lines)
  /\ \A i \in 1..Len(lines) :
       /\ ls[i].productId = lines[i].product_id
       /\ ls[i].quantity = lines[i].quantity
       /\ ls[i].unitPrice = price(lines[i].unit_price)

StoredPrice(p) == p

\* C12: a create_order that has returned successfully inserted a header whose
\* totalAmount is the sum over the request's lines of quantity times unit
\* price (0 for no lines) and returns that amount; the lines it returns, and
\* the lines the record store holds for the order while the order is there,
\* are the request's lines in request order.
C12_TotalAmount ==
  \A c \in Calls :
    (calls[c].op = "create_order" /\ calls[c].outcome = "return") =>
      LET lines == calls[c].lines
          total == SumOfLines(lines, Len(lines))
          order == calls[c].result[1]
      IN /\ calls[c].hdr[1].totalAmount = total
         /\ order.totalAmount = Dec(total)
         /\ order.id = calls[c].hdr[1].id
         /\ AreRequestLines(order.lines, lines, Dec)
         /\ FindById(order.id) # <<>> =>
              /\ FindById(order.id)[1].totalAmount = total
              /\ AreRequestLines(LinesOf(order.id), lines, StoredPrice)

C12_Witness ==
  \E c, d \in Calls :
    /\ calls[c].op = "create_order" /\ calls[c].outcome = "return"
    /\ calls[c].lines = <<Line1, Line2>>
    /\ calls[c].result[1].totalAmount = Dec(6600)
    /\ FindById(calls[c].order_id) # <<>>
    /\ calls[d].op = "create_order" /\ calls[d].outcome = "return"
    /\ calls[d].lines = <<>>
    /\ calls[d].result[1].totalAmount = Dec(0)

\* No order of the record store has this id and this customer.
NoSuchOrder(order_id, customer_id) ==
  ~\E h \in orderheader : h.id = order_id /\ h.customerId = customer_id

\* Nothing is written: record store, cache and history stay as they are and
\* no handler is given anything.
NothingWritten ==
  /\ orderheader' = orderheader /\ orderline' = orderline
  /\ orderhistory' = orderhistory
  /\ cache' = cache
  /\ event_history' = event_history /\ tasks' = tasks

\* The step of call c that looks the order up in the record store, the call
\* having found no cache entry it could use and the lookup itself working.
LooksUp(c) ==
  /\ \/ calls[c].pc = "get_find" /\ calls'[c].pc # "get_find"
     \/ calls[c].op = "idle" /\ calls'[c].op \in {"update_order", "delete_order"}
  /\ calls'[c].err # "db"

C13_Step ==
  \A c \in Calls :
    /\ (calls[c].op = "idle" /\ calls'[c].op = "get_order_by_id") =>
         NothingWritten
    /\ (LooksUp(c) /\ NoSuchOrder(calls'[c].order_id, calls'[c].customer_id)) =>
         /\ NothingWritten
         /\ calls'[c].pc = "done"
         /\ ~Published(c)'
         /\ calls'[c].cache_writes = 0
         /\ calls'[c].op \in {"get_order_by_id", "update_order"} =>
              calls'[c].outcome = "return" /\ calls'[c].result = <<>>
         /\ calls'[c].op = "delete_order" =>
              calls'[c].outcome = "raise" /\ calls'[c].err = "ValueError"

\* C13: when no order of the record store has the given id and customer (and
\* the cache has no entry of that customer under the id), get_order_by_id and
\* update_order return an absent result and delete_order raises its
\* not-found error, in the very step that looked the order up; no step of
\* such a call changes the record store, the cache or the event history.
C13_NotFound == [][C13_Step]_vars

C13_Witness ==
  \E c, d \in Calls :
    /\ calls[c].op = "get_order_by_id" /\ calls[c].outcome = "return"
    /\ calls[c].cached_order # <<>> /\ calls[c].queries = 1
    /\ calls[c].result = <<>>
    /\ calls[d].op = "delete_order" /\ calls[d].err = "ValueError"
    /\ FindById(calls[d].order_id) # <<>>
    /\ cache[calls[d].order_id] # <<>>

\* The cache holds, under order:<id>, a snapshot of this customer's order.
CacheHoldsFor(order_id, customer_id) ==
  /\ cache[order_id] # <<>>
  /\ JsonLoads(cache[order_id][1].value).customerId = customer_id

\* C14: a GET /orders/{order_id} by the owner of an order for which the cache
\* holds a snapshot answers with that cached snapshot and does not read the
\* record store.
C14_Step ==
  \A c \in Calls :
    LET order_id == calls'[c].order_id
        customer_id == calls'[c].customer_id
    IN (/\ calls[c].op = "idle" /\ calls'[c].op = "get_order"
        /\ ~NoSuchOrder(order_id, customer_id)
        /\ CacheHoldsFor(order_id, customer_id)) =>
         /\ calls'[c].queries = 0
         /\ calls'[c].outcome = "return"
         /\ calls'[c].result = <<JsonLoads(cache[order_id][1].value)>>

C14_CachedRead == [][C14_Step]_vars

\* The status an endpoint answers with, from how its call ended.
\* create_order (201, or 500 for any exception), get_order (the dependency's
\* HTTPException, or 200), update_order (404 for None, 500 for any
\* exception), delete_order (404 only for a falsy result, 500 for any
\* exception, ValueError included).
HttpStatus(f) ==
  IF f.op = "create_order"
  THEN IF f.outcome = "return" THEN 201 ELSE 500
  ELSE IF f.op = "get_order"
  THEN IF f.outcome = "return" THEN 200
       ELSE IF f.err = "404" THEN 404
       ELSE IF f.err = "403" THEN 403 ELSE 500
  ELSE IF f.op = "update_order"
  THEN IF f.outcome = "raise" THEN 500
       ELSE IF f.result = <<>> THEN 404 ELSE 200
  ELSE IF f.op = "delete_order"
  THEN IF f.outcome = "raise" THEN 500
       ELSE IF f.result = <<>> THEN 404 ELSE 200
  ELSE 0

\* C15: a DELETE /orders/{order_id} for an order that does not exist for the
\* customer is answered with 404, nothing deleted and no event published.
C15_DeleteNotFound ==
  \A c \in Calls :
    (calls[c].op = "delete_order" /\ calls[c].err = "ValueError") =>
      /\ HttpStatus(calls[c]) = 404
      /\ ~Published(c)

\* Task i of call c is next to start: it has not started, every task given
\* to the gather before it has (finished or not).
NextToStart(c, i) ==
  /\ i \in 1..Len(tasks[c])
  /\ tasks[c][i].st = "pending"
  /\ \A j \in 1..(i - 1) : tasks[c][j].st # "pending"

\* The first step of handle for task i of call c.
HandlerStart(c, i) ==
  \/ MockEventHandler_handle(c, i)
  \/ FailingHandler_handle(c, i)
  \/ CacheHandler_handle(c, i)

\* C16: within one publish a selected handler can start as soon as the
\* handlers registered before it have started, whether or not they have
\* finished: a handler suspended in handle (for ever, possibly) never keeps a
\* later one from starting.
C16_Concurrent ==
  \A c \in Calls : \A i \in 1..MaxHandlers :
    NextToStart(c, i) => ENABLED HandlerStart(c, i)

\* Both completion orders in one state: in call c the later-registered
\* handler has completed while the earlier one is still suspended, in call d
\* the earlier one has completed and the later one is still suspended.
C16_Witness ==
  \E c, d \in Calls :
    /\ Len(tasks[c]) >= 2
    /\ tasks[c][1].st = "running" /\ tasks[c][2].st = "ok"
    /\ Len(tasks[d]) >= 2
    /\ tasks[d][1].st = "ok" /\ tasks[d][2].st = "running"

\* Call c is inside publish, awaiting the gather of its handlers.
AwaitsGather(c) == calls[c].pc = "gather"

\* A step in which publish returns to call c.
PublishReturns(c) == AwaitsGather(c) /\ ~AwaitsGather(c)'

\* C17: publish returns exactly when its handlers have all finished.  Once
\* every selected handler has finished, publish eventually returns; publish
\* returns in no step before that, so while one selected handler has not
\* finished publish, and the order operation awaiting it, stay where they
\* are (there is no timeout and no cancellation).
C17_ReturnsIffFinished ==
  /\ \A c \in Calls : (AwaitsGather(c) /\ AllFinished(c)) ~> ~AwaitsGather(c)
  /\ [][\A c \in Calls :
          /\ PublishReturns(c) => \A i \in 1..Len(tasks[c]) :
                                    tasks[c][i].st \in {"ok", "raised"}
          /\ (AwaitsGather(c) /\ \E i \in 1..Len(tasks[c]) :
                                    tasks[c][i].st \notin {"ok", "raised"}) =>
               /\ AwaitsGather(c)'
               /\ calls'[c].outcome = ""]_vars

C17_Witness ==
  \E c, d \in Calls :
    /\ calls[c].op = "delete_order" /\ AwaitsGather(c)
    /\ \E i, j \in 1..Len(tasks[c]) :
         tasks[c][i].st = "ok" /\ tasks[c][j].st = "pending"
    /\ FindById(calls[c].order_id) # <<>>
    /\ Published(d) /\ calls[d].pc = "done" /\ calls[d].outcome = "return"
    /\ Len(tasks[d]) = 2

\* The calls that have called publish; calls start in the order of their ids.
Publishers == {c \in Calls : calls[c].event # <<>>}

\* The history is the events of the publish calls, in call order, once each.
HistoryIsPublished ==
  /\ Len(event_history) = Cardinality(Publishers)
  /\ \A i \in 1..Len(event_history) :
       /\ i \in Publishers
       /\ event_history[i] = calls[i].event[1]

\* A step either leaves the history alone or is a call to publish, which
\* appends its event before any of its handlers has run.
HistoryStep ==
  \/ event_history' = event_history
  \/ \E c \in Calls :
       /\ calls[c].event = <<>> /\ calls'[c].event # <<>>
       /\ event_history' = Append(event_history, calls'[c].event[1])
       /\ \A i \in 1..Len(tasks'[c]) : tasks'[c][i].st = "pending"
       /\ handled_events' = handled_events

\* C18: the event history is always exactly the events handed to publish, in
\* the order publish was called, each once, however many handlers matched
\* and whether they failed; publish appends before any handler has run, and
\* no step removes or reorders entries.
C18_HistoryAppendOnly == [][HistoryStep /\ HistoryIsPublished']_vars

C18_Witness ==
  /\ Len(event_history) = 2
  /\ event_history[1].event_type # event_history[2].event_type
  /\ calls[1].pc = "gather"
  /\ calls[2].pc = "done" /\ Len(tasks[2]) > Len(tasks[1])
  /\ \E i \in 1..Len(tasks[1]) : tasks[1][i].st = "raised"

\* Lists of handlers a registration call may be given.
HandlerLists ==
  {<<>>} \cup {<<h>> : h \in BusHandlers}
         \cup {<<h1, h2>> : h1 \in BusHandlers, h2 \in BusHandlers}

\* What registering does to the handler list as it is now: register_handler
\* puts the handler at the end, already there or not; register_handlers is
\* register_handler on each element in order.
RegistrationAppends ==
  /\ \A h \in BusHandlers :
       RegisterHandler(handlers, h) = handlers \o <<h>>
  /\ \A hs \in HandlerLists :
       /\ RegisterHandlers(handlers, hs) = handlers \o hs
       /\ Len(hs) = 2 =>
            RegisterHandlers(handlers, hs) =
              RegisterHandler(RegisterHandler(handlers, hs[1]), hs[2])

\* A step that changes the handler list is a registration: it puts the
\* handlers it was given at the end, keeps what was there, and leaves the
\* event history and the running handlers alone.
RegistrationStep ==
  handlers' # handlers =>
    /\ \E hs \in HandlerLists : handlers' = handlers \o hs
    /\ event_history' = event_history
    /\ tasks' = tasks /\ calls' = calls

\* C19: the handler list is the handlers given to register_handler and
\* register_handlers, in call order, duplicates kept, nothing ever removed;
\* register_handlers(hs) leaves the list register_handler leaves when called
\* on each element of hs in order; registration never changes the history.
C19_Registration == [][RegistrationStep /\ RegistrationAppends']_vars

C19_Witness ==
  /\ Len(handlers) = 3
  /\ handlers[1] = handlers[3] /\ handlers[2] # handlers[1]
  /\ event_history # <<>>

\* v is the JSON form of the order snapshot d: the same fields, instants as
\* ISO text, amounts as floats.
IsJsonOfSnapshot(v, d) ==
  /\ DOMAIN v = DOMAIN d
  /\ v.id = d.id /\ v.customerId = d.customerId /\ v.status = d.status
  /\ v.orderDate = Iso(d.orderDate[2]) /\ v.totalAmount = Flt(d.totalAmount[2])
  /\ v.createdAt = Iso(d.createdAt[2]) /\ v.updatedAt = Iso(d.updatedAt[2])
  /\ Len(v.lines) = Len(d.lines)
  /\ \A i \in 1..Len(d.lines) :
       /\ v.lines[i].id = d.lines[i].id
       /\ v.lines[i].productId = d.lines[i].productId
       /\ v.lines[i].quantity = d.lines[i].quantity
       /\ v.lines[i].unitPrice = Flt(d.lines[i].unitPrice[2])
       /\ v.lines[i].createdAt = Iso(d.lines[i].createdAt[2])

\* The step in which the CacheHandler coroutine i of call c finishes, its
\* cache call having worked.
CacheHandlerFinishes(c, i) ==
  /\ i \in 1..Len(tasks[c])
  /\ tasks[c][i].handler = "CacheHandler"
  /\ tasks[c][i].st = "pending"
  /\ tasks'[c][i].st = "ok" /\ tasks'[c][i].io = "ok"

\* What the cache holds once the handler has finished with event e.
CacheAfter(e) ==
  LET order_id == IF e.event_type = "OrderCreated" THEN e.data.id
                  ELSE e.data.order_id
  IN /\ e.event_type = "OrderCreated" =>
          /\ cache'[order_id] # <<>>
          /\ cache'[order_id][1].ex = 3600
          /\ IsJsonOfSnapshot(JsonLoads(cache'[order_id][1].value), e.data)
     /\ e.event_type = "OrderUpdated" =>
          /\ cache'[order_id] # <<>>
          /\ cache'[order_id][1].ex = 3600
          /\ IsJsonOfSnapshot(JsonLoads(cache'[order_id][1].value),
                              e.data.new_data)
     /\ e.event_type = "OrderDeleted" => cache'[order_id] = <<>>
     /\ \A k \in OrderIds \ {order_id} : cache'[k] = cache[k]

\* C20: when CacheHandler.handle(e) finishes with a working cache, the key
\* order:<id> holds the JSON form of the event's snapshot (the new one for
\* OrderUpdated) with a TTL of 3600 seconds for OrderCreated and
\* OrderUpdated, the key is absent for OrderDeleted, and every other key is
\* as it was.
C20_CacheMirror ==
  [][\A c \in Calls : \A i \in 1..MaxHandlers :
       CacheHandlerFinishes(c, i) => CacheAfter(EventOf(c))]_vars

C20_Witness ==
  \E c, d \in Calls :
    /\ calls[c].op = "create_order" /\ calls[c].order_id # 0
    /\ \E i \in 1..Len(tasks[c]) :
         tasks[c][i].handler = "CacheHandler" /\ tasks[c][i].io = "ok"
    /\ cache[calls[c].order_id] # <<>>
    /\ cache[calls[c].order_id][1].ex = 3600
    /\ Len(JsonLoads(cache[calls[c].order_id][1].value).lines) = 2
    /\ calls[d].op = "delete_order" /\ calls[d].order_id # calls[c].order_id
    /\ \E i \in 1..Len(tasks[d]) :
         tasks[d][i].handler = "CacheHandler" /\ tasks[d][i].io = "ok"
    /\ cache[calls[d].order_id] = <<>>

\* The step in which the CacheHandler coroutine i of call c ends, its cache
\* call (set or delete) having failed.
CacheCallFails(c, i) ==
  /\ i \in 1..Len(tasks[c])
  /\ tasks[c][i].handler = "CacheHandler"
  /\ tasks[c][i].st = "pending"
  /\ tasks'[c][i].st # "pending"
  /\ tasks'[c][i].io = "failed"

\* No CacheHandler coroutine has ended by raising.
CacheHandlerNeverRaised ==
  \A c \in Calls : \A i \in 1..Len(tasks[c]) :
    tasks[c][i].handler = "CacheHandler" => tasks[c][i].st # "raised"

\* C21: CacheHandler.handle never raises; when its cache set or delete
\* fails, for an OrderCreated, OrderUpdated or OrderDeleted event, handle
\* returns normally and the cache is as it was before the call.
C21_CacheErrorsSwallowed ==
  [][/\ CacheHandlerNeverRaised'
     /\ \A c \in Calls : \A i \in 1..MaxHandlers :
          CacheCallFails(c, i) =>
            /\ EventOf(c).event_type \in OrderEventTypes
            /\ tasks'[c][i].st = "ok"
            /\ cache' = cache]_vars

C21_Witness ==
  \E c \in Calls :
    /\ calls[c].op = "delete_order" /\ calls[c].outcome = "return"
    /\ \E i \in 1..Len(tasks[c]) :
         /\ tasks[c][i].handler = "CacheHandler"
         /\ tasks[c][i].st = "ok" /\ tasks[c][i].io = "failed"
    /\ cache[calls[c].order_id] # <<>>
    /\ FindById(calls[c].order_id) = <<>>

\* A step in which handle of a HistoryHandler ends for the event of call c,
\* and whether the audit store failed in it.
AuditCallEnds(c, i) ==
  /\ i \in 1..Len(tasks[c])
  /\ tasks[c][i].handler = "HistoryHandler"
  /\ tasks[c][i].st = "pending"
  /\ tasks'[c][i].st # "pending"

AuditStoreFailed(c, i) == tasks'[c][i].io = "failed"

AuditAction(event_type) ==
  IF event_type = "OrderCreated" THEN "CREATED"
  ELSE IF event_type = "OrderUpdated" THEN "UPDATED"
  ELSE "DELETED"

EventCustomer(e) ==
  IF e.event_type = "OrderCreated" THEN e.data.customerId
  ELSE IF e.event_type = "OrderUpdated" THEN e.data.new_data.customerId
  ELSE e.data.order_data.customerId

AuditPrefixKept ==
  /\ Len(orderhistory') >= Len(orderhistory)
  /\ SubSeq(orderhistory', 1, Len(orderhistory)) = orderhistory

\* C22: whenever HistoryHandler has handled an OrderCreated, OrderUpdated or
\* OrderDeleted event and the audit store did not fail, exactly one record
\* was appended to the audit store, with the action of the event type, the
\* order id of the event and the customer of the order as performedBy; and
\* no step modifies or removes a record already in the audit store.
C22_OneAuditRecord ==
  [][/\ AuditPrefixKept
     /\ \A c \in Calls : \A i \in 1..MaxHandlers :
          (AuditCallEnds(c, i) /\ ~AuditStoreFailed(c, i)
             /\ EventOf(c).event_type \in OrderEventTypes) =>
            /\ Len(orderhistory') = Len(orderhistory) + 1
            /\ LET rec == orderhistory'[Len(orderhistory')]
               IN /\ rec.action = AuditAction(EventOf(c).event_type)
                  /\ rec.orderId = EventOrderId(EventOf(c))
                  /\ rec.performedBy = EventCustomer(EventOf(c))]_vars

\* The audit write of a HistoryHandler invoked for the event of call c failed.
AuditFailed(c) ==
  \E i \in 1..Len(tasks[c]) :
    tasks[c][i].handler = "HistoryHandler" /\ tasks[c][i].io = "failed"

\* The failed audit write was raised out of handle and went no further.
AuditFailureContained(c) ==
  /\ \A i \in 1..Len(tasks[c]) :
       (tasks[c][i].handler = "HistoryHandler" /\ tasks[c][i].io = "failed") =>
         tasks[c][i].st = "raised"
  /\ \A j \in 1..Len(tasks[c]) :
       tasks[c][j].handler = "CacheHandler" => tasks[c][j].st \in {"pending", "ok"}
  /\ PublishOver(c) =>
       /\ \A j \in 1..Len(tasks[c]) : Finished(tasks[c][j])
       /\ calls[c].err # "handler"
       /\ calls[c].pc = "done" =>
            \/ calls[c].outcome = "return" /\ calls[c].result # <<>>
            \/ calls[c].outcome = "raise" /\ calls[c].err = "db"

\* C23: a failed audit write makes HistoryHandler.handle raise; the step in
\* which it raises touches neither the other handlers of the event, nor the
\* publisher, nor the cache; the CacheHandler of the same event still
\* finishes, and with a working cache its effect is applied; publish returns
\* normally once all have finished, and the operation fails only if its own
\* record-store call does.
C23_AuditFailureIsolated ==
  [][/\ \A c \in Calls : AuditFailed(c)' => AuditFailureContained(c)'
     /\ \A c \in Calls : \A i \in 1..MaxHandlers :
          /\ (AuditCallEnds(c, i) /\ AuditStoreFailed(c, i)) =>
               /\ tasks'[c][i].st = "raised"
               /\ \A j \in 1..Len(tasks[c]) : j # i => tasks'[c][j] = tasks[c][j]
               /\ calls' = calls
               /\ cache' = cache
          /\ (CacheHandlerFinishes(c, i) /\ AuditFailed(c)) =>
               CacheAfter(EventOf(c))]_vars

C23_Witness ==
  \E c \in Calls :
    /\ calls[c].op = "update_order" /\ calls[c].outcome = "return"
    /\ \E i, j \in 1..Len(tasks[c]) :
         /\ i < j
         /\ tasks[c][i].handler = "CacheHandler"
         /\ tasks[c][i].st = "ok" /\ tasks[c][i].io = "ok"
         /\ tasks[c][j].handler = "HistoryHandler"
         /\ tasks[c][j].st = "raised" /\ tasks[c][j].io = "failed"
    /\ cache[calls[c].order_id] # <<>>
    /\ JsonLoads(cache[calls[c].order_id][1].value).status = calls[c].status
    /\ \A k \in 1..Len(orderhistory) : orderhistory[k].action # "UPDATED"

\* delete_order of call c got as far as its delete call, and that call failed.
DeleteCallFailed(c) ==
  /\ calls[c].op = "delete_order"
  /\ calls[c].hdr # <<>>
  /\ calls[c].outcome = "raise" /\ calls[c].err = "db"

DeletedPublished(order_id) ==
  \E k \in 1..Len(event_history) :
    /\ event_history[k].event_type = "OrderDeleted"
    /\ event_history[k].data.order_id = order_id

DeletedAudited(order_id) ==
  \E k \in 1..Len(orderhistory) :
    orderhistory[k].action = "DELETED" /\ orderhistory[k].orderId = order_id

\* C24: when the delete call of delete_order has failed and the order is
\* still in the record store, no OrderDeleted event for the order has been
\* published, no CacheHandler has removed its cache entry and no DELETED
\* audit record has been written for it.
C24_FailedDeleteSilent ==
  \A c \in Calls :
    (DeleteCallFailed(c) /\ FindById(calls[c].order_id) # <<>>) =>
      /\ ~DeletedPublished(calls[c].order_id)
      /\ ~DeletedAudited(calls[c].order_id)
      /\ \A i \in 1..Len(tasks[c]) :
           tasks[c][i].handler = "CacheHandler" => tasks[c][i].io # "ok"

\* A step of the get_order_by_id of call c.
GetByIdStep(c) ==
  calls'[c] # calls[c] /\ calls'[c].op = "get_order_by_id"

CacheHit(order_id, customer_id) ==
  /\ cache[order_id] # <<>>
  /\ JsonLoads(cache[order_id][1].value).customerId = customer_id

Propagated(g, err) ==
  g.pc = "done" /\ g.outcome = "raise" /\ g.err = err /\ g.result = <<>>

\* C25: each step of get_order_by_id either is the step a working store
\* gives (cached snapshot returned on a hit, record store asked only after a
\* real miss, absent returned only when the record store has no matching
\* order, snapshot cached and returned) or ends the call with the error of
\* the store that failed: the cache error on the initial get, with no
\* record-store query made, the record-store error on the query, the cache
\* error on the set.
C25_ReadErrorsPropagate ==
  [][\A c \in Calls : GetByIdStep(c) =>
       LET f == calls[c]
           g == calls'[c]
           row == FindByOwner(g.order_id, g.customer_id)
       IN /\ f.op = "idle" =>
               \/ Propagated(g, "cache") /\ g.queries = 0
               \/ /\ CacheHit(g.order_id, g.customer_id)
                  /\ g.outcome = "return"
                  /\ g.result = <<JsonLoads(cache[g.order_id][1].value)>>
               \/ /\ ~CacheHit(g.order_id, g.customer_id)
                  /\ g.pc = "get_find" /\ g.outcome = ""
          /\ f.pc = "get_find" =>
               \/ Propagated(g, "db")
               \/ row = <<>> /\ g.outcome = "return" /\ g.result = <<>>
               \/ row # <<>> /\ g.pc = "get_set" /\ g.outcome = ""
          /\ f.pc = "get_set" =>
               \/ Propagated(g, "cache") /\ cache' = cache
               \/ /\ g.outcome = "return" /\ g.result = <<f.snap>>
                  /\ cache'[g.order_id] # <<>>]_vars

C25_Witness ==
  \E c, d \in Calls :
    /\ c # d
    /\ calls[c].op = "get_order_by_id" /\ calls[d].op = "get_order_by_id"
    /\ calls[c].order_id = calls[d].order_id
    /\ calls[c].customer_id = calls[d].customer_id
    /\ Propagated(calls[c], "cache") /\ calls[c].queries = 0
    /\ Propagated(calls[d], "cache") /\ calls[d].queries = 1
    /\ cache[calls[c].order_id] = <<>>
    /\ FindByOwner(calls[c].order_id, calls[c].customer_id) # <<>>

\* Call c is a get_order_by_id that took the miss path and returned the
\* order; call d is a delete_order of the same order by the same customer
\* that returned, its handlers' store calls having worked.
MissPathRead(c) ==
  /\ calls[c].op = "get_order_by_id"
  /\ calls[c].outcome = "return" /\ calls[c].result # <<>>
  /\ calls[c].queries = 1 /\ calls[c].cache_writes = 1

DeleteDone(d, order_id, customer_id) ==
  /\ calls[d].op = "delete_order"
  /\ calls[d].order_id = order_id /\ calls[d].customer_id = customer_id
  /\ calls[d].outcome = "return"
  /\ \A i \in 1..Len(tasks[d]) :
       tasks[d][i].st = "ok" /\ tasks[d][i].io = "ok"

\* C26: once a get_order_by_id on the miss path and a delete_order of the
\* same order by its owner have both returned, with cache and stores
\* working, the cache holds no entry for the deleted order.
C26_NoStaleAfterDelete ==
  \A c, d \in Calls :
    (MissPathRead(c) /\ DeleteDone(d, calls[c].order_id, calls[c].customer_id)) =>
      cache[calls[c].order_id] = <<>>

\* Call c is an update_order that returned the order, the cache write of its
\* CacheHandler having worked.
UpdateDone(c) ==
  /\ calls[c].op = "update_order"
  /\ calls[c].outcome = "return" /\ calls[c].result # <<>>
  /\ \A i \in 1..Len(tasks[c]) :
       tasks[c][i].handler = "CacheHandler" =>
         tasks[c][i].st = "ok" /\ tasks[c][i].io = "ok"

WriterStep(c, order_id, customer_id) ==
  /\ calls'[c] # calls[c]
  /\ calls[c].op \in {"update_order", "delete_order"}
  /\ calls[c].order_id = order_id
  /\ calls[c].customer_id = customer_id

\* Every header and every line a step changes or removes belongs to the
\* customer of the update_order or delete_order taking the step.
OnlyOwnRowsTouched ==
  /\ \A h \in orderheader \ orderheader' :
       \E c \in Calls : WriterStep(c, h.id, h.customerId)
  /\ \A k \in 1..Len(orderline) :
       (\A n \in 1..Len(orderline') : orderline'[n] # orderline[k]) =>
         \E c \in Calls : \E h \in orderheader :
           h.id = orderline[k].orderId /\ WriterStep(c, h.id, h.customerId)

OnlyOwnReturned(c) ==
  (calls[c].op = "get_order_by_id" /\ calls[c].outcome = "return"
     /\ calls[c].result # <<>>) =>
    calls[c].result[1].customerId = calls[c].customer_id

OnlyOwnPublished(c) ==
  (calls[c].op \in {"update_order", "delete_order"} /\ Published(c)) =>
    /\ EventOrderId(EventOf(c)) = calls[c].order_id
    /\ EventCustomer(EventOf(c)) = calls[c].customer_id
    /\ calls[c].op = "update_order" =>
         EventOf(c).data.old_data.customerId = calls[c].customer_id

EventsFor(order_id, event_type) ==
  {k \in 1..Len(event_history) :
     /\ event_history[k].event_type = event_type
     /\ EventOrderId(event_history[k]) = order_id}

DeletedRecordsFor(order_id) ==
  {k \in 1..Len(orderhistory) :
     orderhistory[k].action = "DELETED" /\ orderhistory[k].orderId = order_id}

\* C29: for every order, the published events follow the lifecycle Created,
\* Updated any number of times, Deleted at most once: at most one
\* OrderDeleted event is in the history and at most one DELETED audit
\* record in the audit store, and no OrderUpdated event comes after the
\* OrderDeleted event.
C29_Lifecycle ==
  \A order_id \in OrderIds :
    /\ Cardinality(EventsFor(order_id, "OrderDeleted")) <= 1
    /\ Cardinality(DeletedRecordsFor(order_id)) <= 1
    /\ \A d \in EventsFor(order_id, "OrderDeleted") :
         \A u \in EventsFor(order_id, "OrderUpdated") : u < d

\* The sum of quantity times unitPrice over stored lines.
RECURSIVE StoredTotal(_)
StoredTotal(ls) ==
  IF ls = <<>> THEN 0
  ELSE Head(ls).quantity * Head(ls).unitPrice + StoredTotal(Tail(ls))

\* Header h is being created: its create_order is between its inserts.
BeingCreated(h) ==
  \E c \in Calls :
    /\ calls[c].op = "create_order" /\ calls[c].pc = "cr_line"
    /\ calls[c].hdr = <<h>>

\* C30: create_order is all-or-nothing.  A create_order that raised has left
\* no header and no lines in the record store and has published no
\* OrderCreated event; so every header in the store, once its create_order
\* is past its inserts, has as totalAmount the sum of quantity times
\* unitPrice over its stored lines.
C30_AllOrNothing ==
  /\ \A c \in Calls :
       (calls[c].op = "create_order" /\ calls[c].outcome = "raise") =>
         /\ ~Published(c)
         /\ calls[c].hdr # <<>> =>
              /\ FindById(calls[c].hdr[1].id) = <<>>
              /\ LinesOf(calls[c].hdr[1].id) = <<>>
  /\ \A h \in orderheader :
       ~BeingCreated(h) => h.totalAmount = StoredTotal(LinesOf(h.id))

====
